---- MODULE Spec2Model ----
(***************************************************************************)
(* Model of the Max Notify integration for Home Assistant:                 *)
(*   - the setup wizard (config_flow.py: MaxNotifyConfigFlow),             *)
(*   - the send handler (notify.py: MaxNotifyEntity.async_send_message).   *)
(* Python strings are sequences of one-character strings; an optional      *)
(* value is the empty sequence (None) or a one-element sequence.           *)
(***************************************************************************)
EXTENDS Integers, Sequences, FiniteSets, TLC

VARIABLES flows, entries, send

vars == <<flows, entries, send>>

\* ------------------------------------------------------------------ bounds

\* Number of wizard flows the host runs (each flow is one wizard run).
MaxFlows == 2

\* Largest number of character runs in a message passed to the send handler.
MaxRuns == 2

Flows == 1..MaxFlows

\* ------------------------------------------------------------- constants

RECIPIENT_TYPE_USER == "user"
RECIPIENT_TYPE_CHAT == "chat"
MAX_MESSAGE_LENGTH == 4000

\* ------------------------------------------------------- optional values

None == <<>>
Some(v) == <<v>>
Val(o) == o[1]

\* Python truthiness of an optional string: None and "" are falsy.
Truthy(o) == o # None /\ Val(o) # <<>>

\* `x or ""` for an optional string x.
OrEmpty(o) == IF Truthy(o) THEN Val(o) ELSE <<>>

\* ------------------------------------------------------ Python builtins

Whitespace == {" "}
Digits == {"0", "1", "2", "3", "4", "5", "6", "7", "8", "9"}

RECURSIVE LStrip(_)
LStrip(s) == IF s # <<>> /\ Head(s) \in Whitespace THEN LStrip(Tail(s)) ELSE s

RECURSIVE RStrip(_)
RStrip(s) ==
    IF s # <<>> /\ s[Len(s)] \in Whitespace
    THEN RStrip(SubSeq(s, 1, Len(s) - 1))
    ELSE s

\* str.strip()
Strip(s) == RStrip(LStrip(s))

DigitVal(c) ==
    CASE c = "0" -> 0 [] c = "1" -> 1 [] c = "2" -> 2 [] c = "3" -> 3
      [] c = "4" -> 4 [] c = "5" -> 5 [] c = "6" -> 6 [] c = "7" -> 7
      [] c = "8" -> 8 [] c = "9" -> 9

DigitChar(d) ==
    CASE d = 0 -> "0" [] d = 1 -> "1" [] d = 2 -> "2" [] d = 3 -> "3"
      [] d = 4 -> "4" [] d = 5 -> "5" [] d = 6 -> "6" [] d = 7 -> "7"
      [] d = 8 -> "8" [] d = 9 -> "9"

RECURSIVE DigitsValue(_)
DigitsValue(s) ==
    IF s = <<>> THEN 0
    ELSE 10 * DigitsValue(SubSeq(s, 1, Len(s) - 1)) + DigitVal(s[Len(s)])

AllDigits(s) == s # <<>> /\ \A i \in 1..Len(s) : s[i] \in Digits

\* int(s) for a string s: surrounding whitespace is ignored, one sign is
\* allowed, the rest must be decimal digits; anything else is a ValueError
\* (ok = FALSE). Underscore separators are not among the modelled characters.
PyInt(s) ==
    LET t == Strip(s)
        signed == t # <<>> /\ t[1] \in {"+", "-"}
        body == IF signed THEN Tail(t) ELSE t
    IN  IF AllDigits(body)
        THEN [ok |-> TRUE,
              value |-> IF signed /\ t[1] = "-" THEN 0 - DigitsValue(body)
                        ELSE DigitsValue(body)]
        ELSE [ok |-> FALSE, value |-> 0]

RECURSIVE NatStr(_)
NatStr(n) ==
    IF n < 10 THEN <<DigitChar(n)>>
    ELSE NatStr(n \div 10) \o <<DigitChar(n % 10)>>

\* str(n) for an integer n.
PyStr(n) == IF n < 0 THEN <<"-">> \o NatStr(0 - n) ELSE NatStr(n)

\* ------------------------------------------------------------ HTTP results

\* What an awaited request ends with: a response status, or an exception.
\* aiohttp raises asyncio.TimeoutError (not a ClientError) when the total
\* timeout of ClientTimeout(total=...) runs out.
Status(n) == [status |-> n, exc |-> "none", chatId |-> FALSE]
Raised(e) == [status |-> 0, exc |-> e, chatId |-> FALSE]

MeOutcomes ==
    {Status(n) : n \in {200, 401, 500}}
        \cup {Raised(e) : e \in {"ClientError", "TimeoutError"}}

\* ========================================================== setup wizard

\* Raw token texts a user may type.
TokenTexts ==
    { <<>>, <<" ", " ">>, <<"a">>, <<" ", "b", " ">> }

\* Raw id texts a user may type.
IdTexts ==
    { <<>>, <<" ">>, <<"1">>, <<" ", "0", "2">>,
      <<"0">>, <<"-", "1">>, <<"1", "x">> }

RecipientTypes == {RECIPIENT_TYPE_USER, RECIPIENT_TYPE_CHAT}

\* The field of user_input that async_step_recipient reads.
ReadField(ui) ==
    IF ui.recipient_type = RECIPIENT_TYPE_USER THEN ui.user_id ELSE ui.chat_id

\* The other id field of the form, which the handler never reads.
OtherField(ui) ==
    IF ui.recipient_type = RECIPIENT_TYPE_USER THEN ui.chat_id ELSE ui.user_id

\* The submissions of the recipient form: the field of the selected type
\* holds any id text; the other field, which no path of the handler reads,
\* holds a valid id that has to be ignored.
RecipientInputs ==
    {ui \in [recipient_type : RecipientTypes, user_id : IdTexts, chat_id : IdTexts] :
        OtherField(ui) = <<"1">>}

NoSuggested ==
    [access_token |-> <<>>, recipient_type |-> "", user_id |-> <<>>,
     chat_id |-> <<>>]

NoResult == [type |-> "none", step_id |-> "", error |-> "", suggested |-> NoSuggested]

NoSubmitted == [kind |-> "none", access_token |-> <<>>, recipient_type |-> "",
                id_text |-> <<>>]

\* MaxNotifyConfigFlow.__init__, plus the host's view of the flow:
\*   token, recipient_type, user_id, chat_id  the instance fields self._*;
\*   step      where the host is in the flow (it calls the handler of the
\*             form shown last): start, token, recipient, created, aborted;
\*   awaiting  async_step_user is suspended on GET /me;
\*   result    the FlowResult the last handler call returned;
\* and, recorded for the properties only,
\*   submitted the fields of the last user_input that the handler read,
\*   calls     the HTTP requests the last handler call issued,
\*   outcome   what the last GET /me ended with,
\*   validated the token for which GET /me last answered 200.
NewFlow ==
    [step |-> "start", awaiting |-> FALSE,
     token |-> None, recipient_type |-> None, user_id |-> None, chat_id |-> None,
     result |-> NoResult,
     submitted |-> NoSubmitted, calls |-> 0, outcome |-> Raised("none"),
     validated |-> None]

\* Mutant of ValidateToken: a 401 is taken for success.
ValidateToken_401Ok(o) ==
    IF o.exc = "none"
    THEN IF o.status = 200 \/ o.status = 401 THEN "" ELSE "cannot_connect"
    ELSE IF o.exc = "ClientError" THEN "cannot_connect"
    ELSE "unknown"

\* _validate_token: the error string for a GET /me outcome, "" for None.
ValidateToken(o) ==
    IF o.exc = "none"
    THEN IF o.status = 200 THEN ""
         ELSE IF o.status = 401 THEN "invalid_auth"
         ELSE "cannot_connect"
    ELSE IF o.exc = "ClientError" THEN "cannot_connect"
    ELSE "unknown"

\* _schema_token: the suggested values of the token form.
SchemaToken(fl) == [NoSuggested EXCEPT !.access_token = OrEmpty(fl.token)]

\* _schema_recipient: the suggested values of the recipient form.
SchemaRecipient(fl) ==
    [NoSuggested EXCEPT
        !.recipient_type =
            IF fl.recipient_type # None /\ Val(fl.recipient_type) # ""
            THEN Val(fl.recipient_type) ELSE RECIPIENT_TYPE_USER,
        !.user_id = OrEmpty(fl.user_id),
        !.chat_id = OrEmpty(fl.chat_id)]

\* self.async_show_form(step_id="user", ...)
ShowTokenForm(fl, err) ==
    [fl EXCEPT !.step = "token",
               !.result = [type |-> "form", step_id |-> "user", error |-> err,
                           suggested |-> SchemaToken(fl)]]

\* self.async_show_form(step_id="recipient", ...)
ShowRecipientForm(fl, err) ==
    [fl EXCEPT !.step = "recipient",
               !.result = [type |-> "form", step_id |-> "recipient",
                           error |-> err, suggested |-> SchemaRecipient(fl)]]

\* `if not self._token` in async_step_user.
TokenMissing(tok) == ~Truthy(tok)

\* Mutant of StoredToken: the token is stored without strip().
StoredToken_NoStrip(raw) == Some(raw)

\* self._token = user_input[CONF_ACCESS_TOKEN].strip()
StoredToken(raw) == Some(Strip(raw))

\* Mutant of CheckId: the test is `< 0` where the code has `<= 0`.
CheckId_ZeroAllowed(raw) ==
    LET s == Strip(raw)
        p == PyInt(s)
    IN  IF s = <<>> THEN [verdict |-> "required", value |-> 0]
        ELSE IF ~p.ok \/ p.value < 0 THEN [verdict |-> "invalid", value |-> 0]
        ELSE [verdict |-> "ok", value |-> p.value]

\* The id checks of async_step_recipient on the raw field: "required" when
\* empty after strip, "invalid" when int() fails or the value is <= 0.
CheckId(raw) ==
    LET s == Strip(raw)
        p == PyInt(s)
    IN  IF s = <<>> THEN [verdict |-> "required", value |-> 0]
        ELSE IF ~p.ok \/ p.value <= 0 THEN [verdict |-> "invalid", value |-> 0]
        ELSE [verdict |-> "ok", value |-> p.value]

\* The error key of a rejected id for the selected recipient type.
IdError(rtype, verdict) ==
    IF rtype = RECIPIENT_TYPE_USER
    THEN (IF verdict = "required" THEN "user_id_required" ELSE "invalid_user_id")
    ELSE (IF verdict = "required" THEN "chat_id_required" ELSE "invalid_chat_id")

\* The instance fields after a submission that passed validation.
AcceptRecipient(fl, rtype, n) ==
    IF rtype = RECIPIENT_TYPE_USER
    THEN [fl EXCEPT !.user_id = Some(PyStr(n)), !.chat_id = None]
    ELSE [fl EXCEPT !.chat_id = Some(PyStr(n)), !.user_id = None]

\* Mutant of EntryData: the id is stored under both keys.
EntryData_BothKeys(fl) ==
    LET id == IF Truthy(fl.user_id) THEN Val(fl.user_id) ELSE Val(fl.chat_id)
    IN  [access_token |-> fl.token,
         recipient_type |-> fl.recipient_type,
         user_id |-> Some(PyInt(id).value),
         chat_id |-> Some(PyInt(id).value)]

\* _create_entry: the data dict.
EntryData(fl) ==
    [access_token |-> fl.token,
     recipient_type |-> fl.recipient_type,
     user_id |-> IF Truthy(fl.user_id)
                 THEN Some(PyInt(Val(fl.user_id)).value) ELSE None,
     chat_id |-> IF Truthy(fl.user_id)
                 THEN None ELSE Some(PyInt(Val(fl.chat_id)).value)]

\* Mutant of UniqueSuffix: the recipient type is part of the suffix.
UniqueSuffix_Typed(fl) ==
    IF Truthy(fl.user_id) THEN <<"user_">> \o Val(fl.user_id)
    ELSE IF Truthy(fl.chat_id) THEN <<"chat_">> \o Val(fl.chat_id)
    ELSE <<"default">>

\* _create_entry: unique_suffix = self._user_id or self._chat_id or "default"
UniqueSuffix(fl) ==
    IF Truthy(fl.user_id) THEN Val(fl.user_id)
    ELSE IF Truthy(fl.chat_id) THEN Val(fl.chat_id)
    ELSE <<"default">>

\* f"max_notify_{unique_suffix}"
UniqueId(suffix) == <<"max_notify_">> \o suffix

\* f"Max Notify ({unique_suffix})"
EntryTitle(suffix) == <<"Max Notify (">> \o suffix \o <<")">>

\* Mutant of UniqueIdConfigured: the duplicate check is left out.
UniqueIdConfigured_Never(uid, ents) == FALSE

\* _abort_if_unique_id_configured: the host aborts the flow when an entry of
\* the domain already has the unique id.
UniqueIdConfigured(uid, ents) == \E e \in ents : e.unique_id = uid

Init ==
    /\ flows = [f \in Flows |-> NewFlow]
    /\ entries = {}
    /\ send = [pc |-> "off"]

\* The host starts the flow: async_step_user(None) shows the token form.
StepUserInit(f) ==
    /\ flows[f].step = "start"
    /\ flows' = [flows EXCEPT ![f] = ShowTokenForm(flows[f], "")]
    /\ UNCHANGED <<entries, send>>

\* async_step_user(user_input) up to its await: the token is stored; an
\* empty one redisplays the form, any other one is sent with GET /me.
StepUser(f, raw) ==
    /\ flows[f].step = "token"
    /\ ~flows[f].awaiting
    /\ LET fl == [flows[f] EXCEPT
                     !.token = StoredToken(raw),
                     !.submitted = [NoSubmitted EXCEPT !.kind = "token",
                                                       !.access_token = raw],
                     !.calls = 0,
                     !.outcome = Raised("none")]
       IN  flows' = [flows EXCEPT ![f] =
                IF TokenMissing(fl.token)
                THEN ShowTokenForm(fl, "invalid_token")
                ELSE [fl EXCEPT !.awaiting = TRUE, !.calls = 1]]
    /\ UNCHANGED <<entries, send>>

\* async_step_user resumes with the outcome of GET /me: an error redisplays
\* the token form, success goes on to async_step_recipient(None).
MeResponse(f, o) ==
    /\ flows[f].awaiting
    /\ LET err == ValidateToken(o)
           fl == [flows[f] EXCEPT
                     !.awaiting = FALSE,
                     !.outcome = o,
                     !.validated = IF o.exc = "none" /\ o.status = 200
                                   THEN flows[f].token ELSE @]
       IN  flows' = [flows EXCEPT ![f] =
                IF err # "" THEN ShowTokenForm(fl, err)
                ELSE ShowRecipientForm(fl, "")]
    /\ UNCHANGED <<entries, send>>

\* async_step_recipient(user_input), _create_entry included.
StepRecipient(f, ui) ==
    /\ flows[f].step = "recipient"
    /\ LET rtype == ui.recipient_type
           raw == ReadField(ui)
           chk == CheckId(raw)
           fl0 == [flows[f] EXCEPT
                      !.recipient_type = Some(rtype),
                      !.submitted = [NoSubmitted EXCEPT
                                        !.kind = "recipient",
                                        !.recipient_type = rtype,
                                        !.id_text = raw],
                      !.calls = 0]
           fl1 == AcceptRecipient(fl0, rtype, chk.value)
           suffix == UniqueSuffix(fl1)
           uid == UniqueId(suffix)
       IN  IF chk.verdict # "ok"
           THEN /\ flows' = [flows EXCEPT ![f] =
                        ShowRecipientForm(fl0, IdError(rtype, chk.verdict))]
                /\ UNCHANGED entries
           ELSE IF UniqueIdConfigured(uid, entries)
           THEN /\ flows' = [flows EXCEPT ![f] =
                        [fl1 EXCEPT !.step = "aborted",
                            !.result = [NoResult EXCEPT
                                           !.type = "abort",
                                           !.error = "already_configured"]]]
                /\ UNCHANGED entries
           ELSE /\ flows' = [flows EXCEPT ![f] =
                        [fl1 EXCEPT !.step = "created",
                            !.result = [NoResult EXCEPT !.type = "create_entry"]]]
                /\ entries' = entries \cup
                        {[flow_id |-> f, unique_id |-> uid,
                          title |-> EntryTitle(suffix), data |-> EntryData(fl1)]}
    /\ UNCHANGED send

Next ==
    \/ \E f \in Flows : StepUserInit(f)
    \/ \E f \in Flows, raw \in TokenTexts : StepUser(f, raw)
    \/ \E f \in Flows, o \in MeOutcomes : MeResponse(f, o)
    \/ \E f \in Flows, ui \in RecipientInputs : StepRecipient(f, ui)

Spec == Init /\ [][Next]_vars

\* ========================================================== send handler

\* A text of the send handler is a sequence of runs: n copies of one
\* character, adjacent runs of different characters. (A message of 4001
\* characters is one run, not a sequence of 4001 elements.)
Run(c, k) == [ch |-> c, n |-> k]

RECURSIVE TextLen(_)
\* len(text)
TextLen(t) == IF t = <<>> THEN 0 ELSE t[1].n + TextLen(Tail(t))

\* a + b
TextConcat(a, b) ==
    IF a = <<>> THEN b
    ELSE IF b = <<>> THEN a
    ELSE IF a[Len(a)].ch = b[1].ch
         THEN SubSeq(a, 1, Len(a) - 1)
                  \o <<Run(b[1].ch, a[Len(a)].n + b[1].n)>> \o Tail(b)
         ELSE a \o b

RECURSIVE TextTake(_, _)
\* text[:k]
TextTake(t, k) ==
    IF t = <<>> \/ k <= 0 THEN <<>>
    ELSE IF t[1].n >= k THEN <<Run(t[1].ch, k)>>
    ELSE <<t[1]>> \o TextTake(Tail(t), k - t[1].n)

Newline == <<Run("\n", 1)>>

\* The run lengths the inputs are built from: short, and around the limit.
RunLengths ==
    {1, MAX_MESSAGE_LENGTH - 2, MAX_MESSAGE_LENGTH - 1, MAX_MESSAGE_LENGTH,
     MAX_MESSAGE_LENGTH + 1}

MessageChars == {"x", "y"}

RECURSIVE TextsOfRuns(_)
\* The texts of exactly k runs over MessageChars and RunLengths.
TextsOfRuns(k) ==
    IF k = 0 THEN {<<>>}
    ELSE {TextConcat(t, <<Run(c, n)>>) :
            t \in TextsOfRuns(k - 1), c \in MessageChars, n \in RunLengths}

\* The messages: every text of at most MaxRuns runs.
MessageTexts ==
    {t \in UNION {TextsOfRuns(k) : k \in 0..MaxRuns} : Len(t) <= MaxRuns}

\* The titles: None, "", or one run of a title character.
TitleTexts ==
    {None, Some(<<>>)} \cup {Some(<<Run("T", n)>>) : n \in RunLengths}

\* A value of entry.data under user_id / chat_id: absent, an int, or a str.
Absent == [kind |-> "none", int |-> 0, str |-> <<>>]
IntValue(n) == [kind |-> "int", int |-> n, str |-> <<>>]
StrValue(s) == [kind |-> "str", int |-> 0, str |-> s]

IdValues == {Absent, IntValue(0), IntValue(42), StrValue(<<"a", "b", "c">>)}

TokenValues == {None, Some(<<>>), Some(<<"a">>)}

EntryDatas == [access_token : TokenValues, user_id : IdValues, chat_id : IdValues]

\* int(v) for a stored value that is not None.
IntOf(v) == IF v.kind = "int" THEN [ok |-> TRUE, value |-> v.int] ELSE PyInt(v.str)

\* text = f"{title}\n{message}" if title else message
ComposeText(title, message) ==
    IF title # None /\ Val(title) # <<>>
    THEN TextConcat(TextConcat(Val(title), Newline), message)
    ELSE message

\* Mutant of Truncate: the slice is one character short.
Truncate_OffByOne(text) ==
    IF TextLen(text) > MAX_MESSAGE_LENGTH
    THEN TextTake(text, MAX_MESSAGE_LENGTH - 1)
    ELSE text

\* if len(text) > MAX_MESSAGE_LENGTH: text = text[:MAX_MESSAGE_LENGTH]
Truncate(text) ==
    IF TextLen(text) > MAX_MESSAGE_LENGTH
    THEN TextTake(text, MAX_MESSAGE_LENGTH)
    ELSE text

\* The recipient branches of async_send_message. int() of a malformed value
\* raises ValueError there, outside the try block.
SelectRecipient(data) ==
    LET uid == data.user_id
        cid == data.chat_id
    IN  IF uid.kind # "none" /\ ~IntOf(uid).ok
        THEN [kind |-> "raise", id |-> 0]
        ELSE IF uid.kind # "none" /\ IntOf(uid).value # 0
        THEN [kind |-> "user_id", id |-> IntOf(uid).value]
        ELSE IF cid.kind # "none" /\ ~IntOf(cid).ok
        THEN [kind |-> "raise", id |-> 0]
        ELSE IF cid.kind # "none" /\ IntOf(cid).value # 0
        THEN [kind |-> "chat_id", id |-> IntOf(cid).value]
        ELSE [kind |-> "none", id |-> 0]

\* What session.post ends with.
PostOutcomes ==
    {Status(n) : n \in {200, 399, 400, 403}}
        \cup {[Status(403) EXCEPT !.chatId = TRUE]}
        \cup {Raised(e) : e \in {"ClientError", "TimeoutError"}}

\* The log lines of the response handling of async_send_message.
ResponseLog(o, recipient) ==
    IF o.exc = "ClientError" THEN <<"error: request failed">>
    ELSE IF o.exc # "none" THEN <<"exception: unexpected error">>
    ELSE IF o.status >= 400
    THEN <<"error: send failed">>
            \o (IF o.status = 403 /\ o.chatId /\ recipient = "user_id"
                THEN <<"info: hint">> ELSE <<>>)
    ELSE <<"info: sent">>

NoRequest == None

\* The host calls entity.async_send_message(message, title).
NewCall(m, t, d) ==
    [pc |-> "called", message |-> m, title |-> t, data |-> d,
     request |-> NoRequest, log |-> <<>>, raised |-> "none"]

InitSend ==
    /\ flows = [f \in Flows |-> NewFlow]
    /\ entries = {}
    /\ send \in {NewCall(m, t, d) :
                    m \in MessageTexts, t \in TitleTexts, d \in EntryDatas}

\* async_send_message up to its await: compose and truncate the text, read
\* the token and the recipient, and issue the POST.
SendMessage ==
    /\ send.pc = "called"
    /\ LET full == ComposeText(send.title, send.message)
           text == Truncate(full)
           log0 == <<"debug: preparing">>
                      \o (IF text # full THEN <<"warning: truncated">> ELSE <<>>)
           rcpt == SelectRecipient(send.data)
       IN  IF ~Truthy(send.data.access_token)
           THEN send' = [send EXCEPT !.pc = "returned",
                                     !.log = log0 \o <<"error: no token">>]
           ELSE IF rcpt.kind = "raise"
           THEN send' = [send EXCEPT !.pc = "raised", !.log = log0,
                                     !.raised = "ValueError"]
           ELSE IF rcpt.kind = "none"
           THEN send' = [send EXCEPT !.pc = "returned",
                                     !.log = log0 \o <<"error: no recipient">>]
           ELSE send' = [send EXCEPT
                            !.pc = "posting",
                            !.log = log0 \o <<"debug: recipient", "debug: request">>,
                            !.request = Some([recipient |-> rcpt.kind,
                                              id |-> rcpt.id,
                                              authorization |-> Val(send.data.access_token),
                                              text |-> text])]
    /\ UNCHANGED <<flows, entries>>

\* async_send_message resumes with the outcome of the POST; every outcome
\* is logged inside the try block and the call returns.
PostResponse(o) ==
    /\ send.pc = "posting"
    /\ send' = [send EXCEPT
                   !.pc = "returned",
                   !.log = @ \o ResponseLog(o, Val(send.request).recipient)]
    /\ UNCHANGED <<flows, entries>>

NextSend ==
    \/ SendMessage
    \/ \E o \in PostOutcomes : PostResponse(o)

SpecSend == InitSend /\ [][NextSend]_vars

\* ================================================= properties: the wizard

\* The id texts by what a user means by them, read off the texts themselves.
EmptyIdTexts == { <<>>, <<" ">> }
NonNumericIdTexts == { <<"1", "x">> }
NonPositiveIdTexts == { <<"0">>, <<"-", "1">> }

\* The number a valid id text denotes.
NumberOf(raw) == IF raw = <<"1">> THEN 1 ELSE IF raw = <<" ", "0", "2">> THEN 2 ELSE 0

\* A token text with nothing but whitespace in it.
Blank(raw) == \A i \in 1..Len(raw) : raw[i] = " "

Terminal(f) == flows[f].step \in {"created", "aborted"}

\* The recipient id an entry stores, under whichever key it is.
EntryId(e) ==
    IF e.data.user_id # None THEN Val(e.data.user_id) ELSE Val(e.data.chat_id)

\* The token step of flow f has just returned for a submitted token.
TokenStepDone(f) ==
    /\ flows[f].submitted.kind = "token"
    /\ ~flows[f].awaiting

\* The recipient step of flow f has just redisplayed its form.
RecipientRejected(f) ==
    /\ flows[f].submitted.kind = "recipient"
    /\ flows[f].step = "recipient"

\* C2: no two config entries share a unique id; a flow whose recipient step
\* passed validation with an already registered key is aborted, has created
\* no entry, and the registered entry still is as its own flow created it;
\* of the finished flows that submitted the same valid recipient data at
\* most one created an entry, and exactly one entry holds their id.
C2_UniqueIdNeverShared ==
    /\ \A e1, e2 \in entries : e1.unique_id = e2.unique_id => e1 = e2
    /\ \A f \in Flows :
          flows[f].step = "aborted" =>
            /\ ~\E e \in entries : e.flow_id = f
            /\ \E e \in entries :
                  /\ e.flow_id # f
                  /\ e.unique_id =
                        <<"max_notify_">> \o PyStr(NumberOf(flows[f].submitted.id_text))
    /\ \A e \in entries :
          /\ flows[e.flow_id].step = "created"
          /\ e.data.access_token = flows[e.flow_id].token
          /\ e.data.recipient_type = flows[e.flow_id].recipient_type
          /\ EntryId(e) = NumberOf(flows[e.flow_id].submitted.id_text)
    /\ \A f \in Flows :
          Terminal(f) =>
            /\ Cardinality({e \in entries :
                    EntryId(e) = NumberOf(flows[f].submitted.id_text)}) = 1
            /\ Cardinality({g \in Flows :
                    /\ flows[g].step = "created"
                    /\ flows[g].submitted = flows[f].submitted}) <= 1

\* Two flows submitted the same valid recipient data: one entry, one abort.
C2_Witness ==
    \E f, g \in Flows :
        /\ flows[f].step = "created"
        /\ flows[g].step = "aborted"
        /\ flows[f].submitted = flows[g].submitted
        /\ Cardinality(entries) = 1

\* C3 (as claimed): for a non-empty trimmed token the outcome of GET /me
\* fixes the result of the token step: 200 shows the recipient form, 401
\* redisplays the token form with invalid_auth, every other status and every
\* network error, a timeout included, redisplays it with cannot_connect.
C3_TokenStepFollowsMe ==
    \A f \in Flows :
        (TokenStepDone(f) /\ ~Blank(flows[f].submitted.access_token)) =>
            LET o == flows[f].outcome
                r == flows[f].result
            IN  IF o.exc = "none" /\ o.status = 200
                THEN /\ flows[f].step = "recipient"
                     /\ r.type = "form" /\ r.step_id = "recipient" /\ r.error = ""
                ELSE /\ flows[f].step = "token"
                     /\ r.type = "form" /\ r.step_id = "user"
                     /\ r.error = IF o.exc = "none" /\ o.status = 401
                                  THEN "invalid_auth" ELSE "cannot_connect"

\* C4: an empty or whitespace-only token redisplays the token form with
\* invalid_token, the flow stays in the token step, and the step has issued
\* no HTTP call.
C4_BlankTokenRejectedOffline ==
    \A f \in Flows :
        (flows[f].submitted.kind = "token" /\ Blank(flows[f].submitted.access_token)) =>
            /\ flows[f].step = "token"
            /\ ~flows[f].awaiting
            /\ flows[f].calls = 0
            /\ flows[f].result.type = "form"
            /\ flows[f].result.step_id = "user"
            /\ flows[f].result.error = "invalid_token"

\* A whitespace-only token was submitted and rejected.
C4_Witness ==
    \E f \in Flows :
        /\ flows[f].submitted.kind = "token"
        /\ flows[f].submitted.access_token = <<" ", " ">>
        /\ flows[f].result.error = "invalid_token"

\* C5: a recipient submission whose id for the selected type is non-numeric
\* or an integer <= 0 redisplays the recipient form with invalid_user_id /
\* invalid_chat_id, one that is empty after trimming with user_id_required /
\* chat_id_required, each for the selected type; the flow has created no
\* entry.
C5_BadIdRejected ==
    \A f \in Flows :
        LET sub == flows[f].submitted
            bad == NonNumericIdTexts \cup NonPositiveIdTexts
            user == sub.recipient_type = "user"
        IN  (sub.kind = "recipient" /\ sub.id_text \in bad \cup EmptyIdTexts) =>
                /\ flows[f].step = "recipient"
                /\ flows[f].result.type = "form"
                /\ flows[f].result.step_id = "recipient"
                /\ flows[f].result.error =
                      IF sub.id_text \in EmptyIdTexts
                      THEN (IF user THEN "user_id_required" ELSE "chat_id_required")
                      ELSE (IF user THEN "invalid_user_id" ELSE "invalid_chat_id")
                /\ ~\E e \in entries : e.flow_id = f

\* A chat id of 0 was rejected while another flow's entry exists.
C5_Witness ==
    \E f \in Flows :
        /\ flows[f].submitted.kind = "recipient"
        /\ flows[f].submitted.recipient_type = "chat"
        /\ flows[f].submitted.id_text = <<"0">>
        /\ flows[f].result.error = "invalid_chat_id"
        /\ entries # {}

\* The steps a flow may take: start -> token -> recipient -> created/aborted,
\* with self-loops on token and recipient.
FlowEdges ==
    { <<"start", "token">>, <<"token", "token">>, <<"token", "recipient">>,
      <<"recipient", "recipient">>, <<"recipient", "created">>,
      <<"recipient", "aborted">> }

\* Every entry was created by a flow whose token step got 200 for the very
\* token the entry stores and whose recipient step then passed validation.
EntryAfterValidation ==
    /\ \A f \in Flows :
          flows[f].step \in {"recipient", "created", "aborted"} =>
              flows[f].validated # None /\ flows[f].validated = flows[f].token
    /\ \A e \in entries :
          LET fl == flows[e.flow_id]
          IN  /\ fl.step = "created"
              /\ fl.validated # None
              /\ e.data.access_token = fl.validated
              /\ fl.submitted.kind = "recipient"
              /\ NumberOf(fl.submitted.id_text) > 0

\* C7: an entry is created only after the token step of the same flow got
\* status 200 for the token the entry stores and the recipient step passed
\* validation; a flow moves only along the edges of FlowEdges, and a created
\* or aborted flow never changes again.
C7_CreatedOnlyAfterValidation ==
    /\ []EntryAfterValidation
    /\ [][\A f \in Flows :
            /\ flows'[f] # flows[f] =>
                  <<flows[f].step, flows'[f].step>> \in FlowEdges
            /\ (\A e \in entries' \ entries : flows[e.flow_id].step = "recipient")
         ]_vars

\* An entry exists for the second token, created by a flow that got 200.
C7_Witness ==
    \E e \in entries :
        /\ flows[e.flow_id].step = "created"
        /\ flows[e.flow_id].validated = Some(<<"b">>)
        /\ e.data.access_token = Some(<<"b">>)

\* C8: every entry stores exactly one of user_id and chat_id, the stored id
\* is an integer > 0, and the key present is the one of its recipient_type.
C8_OneRecipientVariant ==
    \A e \in entries :
        /\ (e.data.user_id = None) # (e.data.chat_id = None)
        /\ EntryId(e) > 0
        /\ e.data.recipient_type \in {Some("user"), Some("chat")}
        /\ (e.data.recipient_type = Some("user")) = (e.data.user_id # None)
        /\ (e.data.recipient_type = Some("chat")) = (e.data.chat_id # None)

\* A chat entry and a user entry exist side by side.
C8_Witness ==
    \E e1, e2 \in entries :
        /\ e1.data.recipient_type = Some("user") /\ e1.data.user_id = Some(1)
        /\ e2.data.recipient_type = Some("chat") /\ e2.data.chat_id = Some(2)

\* C9 (as claimed): a rejected recipient step redisplays the form with the
\* submitted recipient type and the id text entered for that type as its
\* suggested values; a rejected token step redisplays the form with the
\* entered token (as trimmed) as its suggested value.
C9_FormKeepsSelections ==
    \A f \in Flows :
        /\ RecipientRejected(f) =>
              /\ flows[f].result.suggested.recipient_type =
                    flows[f].submitted.recipient_type
              /\ (IF flows[f].submitted.recipient_type = "user"
                  THEN flows[f].result.suggested.user_id
                  ELSE flows[f].result.suggested.chat_id)
                    = flows[f].submitted.id_text
        /\ (TokenStepDone(f) /\ flows[f].step = "token") =>
              flows[f].result.suggested.access_token =
                  Strip(flows[f].submitted.access_token)

\* C10: the duplicate check keys on the numeric id alone: a finished flow is
\* aborted exactly when another flow's entry stores the number it submitted,
\* whatever the two recipient types, and has created its entry otherwise.
C10_KeyIsNumericIdAlone ==
    \A f \in Flows :
        Terminal(f) =>
            /\ (flows[f].step = "aborted") =
                  (\E e \in entries :
                      /\ e.flow_id # f
                      /\ EntryId(e) = NumberOf(flows[f].submitted.id_text))
            /\ (flows[f].step = "created") = (\E e \in entries : e.flow_id = f)

\* A chat submission was aborted by a user entry with the same number, typed
\* differently.
C10_Witness ==
    \E f \in Flows, e \in entries :
        /\ flows[f].step = "aborted"
        /\ flows[f].submitted.recipient_type = "chat"
        /\ flows[f].submitted.id_text = <<" ", "0", "2">>
        /\ e.data.recipient_type = Some("user")
        /\ e.data.user_id = Some(2)

\* ========================================== properties: the send handler

\* The title is present: it is given and not empty.
TitlePresent == send.title # None /\ TextLen(Val(send.title)) > 0

\* title + newline + message when a title is present, else message.
Combined ==
    IF TitlePresent
    THEN TextConcat(Val(send.title), TextConcat(Newline, send.message))
    ELSE send.message

\* a is the first TextLen(a) characters of b.
IsPrefix(a, b) ==
    \/ a = <<>>
    \/ /\ Len(a) <= Len(b)
       /\ \A i \in 1..(Len(a) - 1) : a[i] = b[i]
       /\ a[Len(a)].ch = b[Len(a)].ch
       /\ a[Len(a)].n <= b[Len(a)].n

\* C1 (as claimed): async_send_message never raises out of the call,
\* whatever the message, the title, the entry's data and the HTTP outcome.
C1_SendNeverRaises == send.pc # "raised"

\* C6: the text of the POST body is the combined string when that has at
\* most 4000 characters and exactly its first 4000 characters when it has
\* more; it is never longer than 4000 characters.
C6_SentTextIsTruncatedCombined ==
    send.request # None =>
        LET sent == Val(send.request).text
        IN  /\ TextLen(sent) <= 4000
            /\ TextLen(Combined) <= 4000 => sent = Combined
            /\ TextLen(Combined) > 4000 =>
                  TextLen(sent) = 4000 /\ IsPrefix(sent, Combined)

\* A POST went out for a titled message that is cut inside its second run.
C6_Witness ==
    /\ send.request # None
    /\ TitlePresent
    /\ Len(send.message) = 2
    /\ TextLen(Combined) > 4000
    /\ TextLen(Val(send.title)) + 1 + send.message[1].n < 4000

====
